---------------------------- MODULE Spec2Model ----------------------------
(***************************************************************************)
(* Virtual-memory simulation core of the swapping/thrashing simulator:     *)
(* SimulationEngine (js/simulation/SimulationEngine.js), Page, Frame,      *)
(* SwapSystem (js/core), DiskBlock, the FIFO and LRU replacement policies  *)
(* and Process / WorkloadGenerator.                                        *)
(*                                                                         *)
(* The engine is modelled as one record of its fields; every method is an  *)
(* operator from engine record to engine record, composed exactly as the    *)
(* methods call each other.  Each public call is one action.               *)
(*                                                                         *)
(* Modelled state: config, frame pool and free-frame list, swap blocks and *)
(* free-block list, pages, processes, policy object (FIFO queue / LRU      *)
(* list + node map), simulationTime and the statistics counters.           *)
(* The wall clock (Date.now()), the swap system's I/O record, the          *)
(* thrashing flag, the registered callbacks and the workload intensity.    *)
(* The play/pause scheduler: isRunning, isPaused, speed, lastStepTime, the *)
(* animation-frame handle and the browser's set of requested frames.       *)
(* Not modelled here: rendering fields, the page-fault timestamps and the  *)
(* per-process counters.                                                   *)
(***************************************************************************)
EXTENDS Integers, Sequences, FiniteSets, TLC

\* ------------------------------------------------------------------ bounds
\* Largest frame pool: the construction default (32 in the source, scaled
\* down) and the largest ramFrames passed to updateConfig / loadScenario.
MaxFrames == 2
\* Largest swap pool the engine is constructed with (64 in the source).
MaxBlocks == 2
\* Total number of pages registered at any time.
MaxPages == 3
\* Number of processes registered at any time.
MaxProcs == 2
\* Number of accessPage executions between two resets.
MaxAccesses == 4
\* Number of step() calls between two resets.
MaxSteps == 1
\* Largest clock advance (in access intervals) between two references of
\* the Belady reference-string run.
MaxTickJump == 2
\* Number of wall-clock advances, each of half an I/O window.
MaxTicks == 3
\* Number of step() calls of one continuous run.
MaxRunSteps == 3
\* The wall clock of a played simulation stops after MaxWaits times the
\* longest step interval (accessInterval / 0.1).
MaxWaits == 1

\* ------------------------------------------------------- program constants
AccessInterval == 300
Null == -1
\* swapSystem.ioWindow, in ms, and engine.thrashingThreshold, in I/O per second.
IoWindow == 1000
ThrashingThreshold == 5
\* workloadGenerator.intensity at construction, in tenths.
DefaultIntensity == 10
\* engine.speed at construction, in tenths.
DefaultSpeed == 10

FrameChoices == 1..MaxFrames
SwapChoices == 1..MaxBlocks
PolicyNames == {"FIFO", "LRU"}
\* Identifiers handed to setPolicy: the two policies, one of them in lower
\* case, and one that names no policy.
PolicyInputs == PolicyNames \cup {"fifo", "mru"}
\* options.locality passed to addProcess, in tenths (0 is falsy in JS).
LocalityOptions == {0, 10}

VARIABLES
    config,          \* engine.config: ramFrames, swapBlocks, policy
    frames,          \* engine.frames: frame id -> held page id or Null
    freeFrames,      \* engine.freeFrames: sequence of frame ids
    blockCount,      \* swapSystem.blockCount
    blocks,          \* swapSystem.blocks: block id -> held page id or Null
    freeBlocks,      \* swapSystem.freeBlocks: sequence of block ids
    pages,           \* engine.allPages: page id -> Page record
    pageIdCounter,   \* engine.pageIdCounter
    processes,       \* engine.processes: sequence of Process records
    policy,          \* engine.policy: the active policy object
    simulationTime,  \* engine.simulationTime
    stats,           \* engine.stats counters
    now,             \* Date.now(), in ms
    ioOperations,    \* swapSystem.ioOperations: timestamps of the recorded I/O
    isThrashing,     \* engine.isThrashing
    callbacks,       \* names of the events a callback is registered for
    intensity,       \* workloadGenerator.intensity, in tenths
    isRunning,       \* engine.isRunning
    isPaused,        \* engine.isPaused
    speed,           \* engine.speed, in tenths
    lastStepTime,    \* engine.lastStepTime
    animationFrameId, \* engine.animationFrameId: handle of the last requested frame, or Null
    pendingFrames,   \* handles of the animation frames requested and neither run nor cancelled
    events,          \* callbacks invoked during the last public call, in order
    ioHistory,       \* timestamps of every allocateBlock/freeBlock event since the swap system was reset
    thrashLog,       \* observations of the checkThrashing calls of the last public call
    lastCall,        \* the last public call, when it was reset() or setPolicy()
    residentAtStart, \* ids of the processes whose pages were all in RAM when addProcess returned
    evictLog,        \* observations of the evictPage calls of the last public call
    tracked,         \* pages the active policy object got onPageLoad for, and no onEvict since
    lastAccess,      \* page and outcome of the last accessPage call
    refPos           \* reference-string driver: number of references served

vars == <<config, frames, freeFrames, blockCount, blocks, freeBlocks, pages,
          pageIdCounter, processes, policy, simulationTime, stats,
          now, ioOperations, isThrashing, callbacks, intensity,
          isRunning, isPaused, speed, lastStepTime, animationFrameId, pendingFrames,
          events, ioHistory, thrashLog, lastCall, residentAtStart,
          evictLog, tracked, lastAccess, refPos>>

\* The engine as one record, and its installation as the next state.
Engine ==
    [config |-> config, frames |-> frames, freeFrames |-> freeFrames,
     blockCount |-> blockCount, blocks |-> blocks, freeBlocks |-> freeBlocks,
     pages |-> pages, pageIdCounter |-> pageIdCounter, processes |-> processes,
     policy |-> policy, simulationTime |-> simulationTime, stats |-> stats,
     now |-> now, ioOperations |-> ioOperations, isThrashing |-> isThrashing,
     callbacks |-> callbacks, intensity |-> intensity,
     isRunning |-> isRunning, isPaused |-> isPaused, speed |-> speed,
     lastStepTime |-> lastStepTime, animationFrameId |-> animationFrameId,
     pendingFrames |-> pendingFrames,
     events |-> events, ioHistory |-> ioHistory, thrashLog |-> thrashLog,
     lastCall |-> lastCall, residentAtStart |-> residentAtStart,
     evictLog |-> evictLog, tracked |-> tracked, lastAccess |-> lastAccess]

Install(s) ==
    /\ config' = s.config
    /\ frames' = s.frames
    /\ freeFrames' = s.freeFrames
    /\ blockCount' = s.blockCount
    /\ blocks' = s.blocks
    /\ freeBlocks' = s.freeBlocks
    /\ pages' = s.pages
    /\ pageIdCounter' = s.pageIdCounter
    /\ processes' = s.processes
    /\ policy' = s.policy
    /\ simulationTime' = s.simulationTime
    /\ stats' = s.stats
    /\ now' = s.now
    /\ ioOperations' = s.ioOperations
    /\ isThrashing' = s.isThrashing
    /\ callbacks' = s.callbacks
    /\ intensity' = s.intensity
    /\ isRunning' = s.isRunning
    /\ isPaused' = s.isPaused
    /\ speed' = s.speed
    /\ lastStepTime' = s.lastStepTime
    /\ animationFrameId' = s.animationFrameId
    /\ pendingFrames' = s.pendingFrames
    /\ events' = s.events
    /\ ioHistory' = s.ioHistory
    /\ thrashLog' = s.thrashLog
    /\ lastCall' = s.lastCall
    /\ residentAtStart' = s.residentAtStart
    /\ evictLog' = s.evictLog
    /\ tracked' = s.tracked
    /\ lastAccess' = s.lastAccess

\* ------------------------------------------------------------ small helpers
\* The sequence 0, 1, ..., n-1.
Iota(n) == [i \in 1..n |-> i - 1]

\* A function over 0..n-1 read as the sequence of its values.
AsSeq(f) == [i \in 1..Cardinality(DOMAIN f) |-> f[i - 1]]

Ceil4Tenths(n) == (4 * n + 9) \div 10

\* --------------------------------------------------------------------- Page
NewPage(processId) ==
    [processId |-> processId, frameId |-> Null, diskBlockId |-> Null,
     location |-> "none", lastAccessTime |-> 0, loadTime |-> 0]

access(pg, timestamp) == [pg EXCEPT !.lastAccessTime = timestamp]

moveToRAM(pg, frameId, timestamp) ==
    [pg EXCEPT !.frameId = frameId, !.diskBlockId = Null, !.location = "ram",
               !.loadTime = timestamp, !.lastAccessTime = timestamp]

\* Mutant of moveToDisk: the frame id is not cleared.
moveToDisk_keepsFrameId(pg, diskBlockId) ==
    [pg EXCEPT !.diskBlockId = diskBlockId, !.location = "disk"]

moveToDisk(pg, diskBlockId) ==
    [pg EXCEPT !.frameId = Null, !.diskBlockId = diskBlockId, !.location = "disk"]

\* --------------------------------------------------------------- SwapSystem
\* SwapSystem.initialize: blockCount free blocks, free list in id order.
initializeBlocks(s) ==
    [s EXCEPT !.blocks = [b \in 0..(s.blockCount - 1) |-> Null],
              !.freeBlocks = Iota(s.blockCount)]

\* SwapSystem.reset: the I/O record is emptied, the blocks are rebuilt.
swapReset(s) ==
    initializeBlocks([s EXCEPT !.ioOperations = <<>>, !.ioHistory = <<>>])

\* The operations of ops that are less than ioWindow old at time t.
WithinWindow(ops, t) == SelectSeq(ops, LAMBDA time : t - time < IoWindow)

\* SwapSystem.recordIO: stamp the operation, drop what left the window.
recordIO(s) ==
    [s EXCEPT !.ioOperations = WithinWindow(Append(@, s.now), s.now),
              !.ioHistory = Append(@, s.now)]

\* Mutant of getIORate: every recorded operation counts, whatever its age.
getIORate_countsAll(s) == (Len(s.ioOperations) * 1000) \div IoWindow

\* SwapSystem.getIORate: operations per second over the window.
getIORate(s) == (Len(WithinWindow(s.ioOperations, s.now)) * 1000) \div IoWindow

\* Mutant of allocateBlock: the last free block is never handed out.
allocateBlock_keepsReserve(s, p) ==
    IF Len(s.freeBlocks) <= 1
    THEN [st |-> s, block |-> Null]
    ELSE LET b == Head(s.freeBlocks)
         IN [st |-> recordIO([s EXCEPT !.freeBlocks = Tail(@),
                                       !.blocks[b] = p,
                                       !.pages[p] = moveToDisk(@, b)]),
             block |-> b]

\* Returns the engine and the allocated block id (Null when swap is full).
allocateBlock(s, p) ==
    IF Len(s.freeBlocks) = 0
    THEN [st |-> s, block |-> Null]
    ELSE LET b == Head(s.freeBlocks)
         IN [st |-> recordIO([s EXCEPT !.freeBlocks = Tail(@),
                                       !.blocks[b] = p,
                                       !.pages[p] = moveToDisk(@, b)]),
             block |-> b]

\* Mutant of freeBlock: the block goes back to the free list still holding
\* its page.
freeBlock_keepsPage(s, blockId) ==
    IF blockId \in DOMAIN s.blocks
    THEN recordIO([s EXCEPT !.freeBlocks = Append(@, blockId)])
    ELSE s

freeBlock(s, blockId) ==
    IF blockId \in DOMAIN s.blocks
    THEN recordIO([s EXCEPT !.blocks[blockId] = Null,
                            !.freeBlocks = Append(@, blockId)])
    ELSE s

\* ----------------------------------------------------------- FIFO policy
NewFIFO == [name |-> "FIFO", queue |-> <<>>, head |-> Null, tail |-> Null,
            nodeMap |-> <<>>]

\* The loop of FIFO.selectVictim: keep the current oldest, replace it only
\* by a page whose loadTime is strictly smaller.
RECURSIVE FIFO_scan(_, _, _, _)
FIFO_scan(pgs, ramPages, i, oldestPage) ==
    IF i > Len(ramPages)
    THEN oldestPage
    ELSE FIFO_scan(pgs, ramPages, i + 1,
                   IF pgs[ramPages[i]].loadTime < pgs[oldestPage].loadTime
                   THEN ramPages[i]
                   ELSE oldestPage)

\* Mutant of FIFO.selectVictim: the scan compares lastAccessTime.
FIFO_selectVictim_byLastAccess(pgs, ramPages) ==
    IF Len(ramPages) = 0 THEN Null
    ELSE LET idx == CHOOSE i \in 1..Len(ramPages) :
                        /\ \A j \in 1..Len(ramPages) :
                              pgs[ramPages[i]].lastAccessTime <= pgs[ramPages[j]].lastAccessTime
                        /\ \A j \in 1..(i - 1) :
                              pgs[ramPages[i]].lastAccessTime < pgs[ramPages[j]].lastAccessTime
         IN ramPages[idx]

FIFO_selectVictim(pgs, ramPages) ==
    IF Len(ramPages) = 0 THEN Null
    ELSE FIFO_scan(pgs, ramPages, 1, ramPages[1])

\* Mutant of FIFO.onPageLoad: the id is put at the front of the queue.
FIFO_onPageLoad_unshift(s, p, timestamp) ==
    [s EXCEPT !.pages[p].loadTime = timestamp,
              !.policy.queue = IF \E i \in 1..Len(@) : @[i] = p
                               THEN @ ELSE <<p>> \o @]

FIFO_onPageLoad(s, p, timestamp) ==
    [s EXCEPT !.pages[p].loadTime = timestamp,
              !.policy.queue = IF \E i \in 1..Len(@) : @[i] = p
                               THEN @ ELSE Append(@, p)]

FIFO_onEvict(s, p) ==
    [s EXCEPT !.policy.queue = SelectSeq(@, LAMBDA q : q # p)]

\* ------------------------------------------------------------ LRU policy
NewLRU == [name |-> "LRU", queue |-> <<>>, head |-> Null, tail |-> Null,
           nodeMap |-> <<>>]

\* The fallback loop of LRU.selectVictim.
RECURSIVE LRU_scan(_, _, _, _)
LRU_scan(pgs, ramPages, i, lruPage) ==
    IF i > Len(ramPages)
    THEN lruPage
    ELSE LRU_scan(pgs, ramPages, i + 1,
                  IF pgs[ramPages[i]].lastAccessTime < pgs[lruPage].lastAccessTime
                  THEN ramPages[i]
                  ELSE lruPage)

LRU_selectVictim(pol, pgs, ramPages) ==
    IF pol.tail # Null THEN pol.tail
    ELSE IF Len(ramPages) = 0 THEN Null
    ELSE LRU_scan(pgs, ramPages, 1, ramPages[1])

\* addToFront, lines 72-85: a new node for page p is linked in as head.
LRU_linkNew(pol, p) ==
    LET node == [prev |-> Null, next |-> pol.head]
        withNode == [q \in DOMAIN pol.nodeMap \cup {p} |->
                        IF q = p THEN node ELSE pol.nodeMap[q]]
    IN IF pol.head = Null
       THEN [pol EXCEPT !.nodeMap = [withNode EXCEPT ![p].next = Null],
                        !.head = p, !.tail = p]
       ELSE [pol EXCEPT !.nodeMap = [withNode EXCEPT ![pol.head].prev = p],
                        !.head = p]

\* Mutant of moveToFront: the tail is not updated when the tail node moves.
LRU_splice_keepsTail(pol, p) ==
    LET node == pol.nodeMap[p]
        m1 == IF node.prev # Null
              THEN [pol.nodeMap EXCEPT ![node.prev].next = node.next]
              ELSE pol.nodeMap
        m2 == IF node.next # Null
              THEN [m1 EXCEPT ![node.next].prev = node.prev]
              ELSE m1
        m3 == [m2 EXCEPT ![p] = [prev |-> Null, next |-> pol.head]]
        m4 == IF pol.head # Null THEN [m3 EXCEPT ![pol.head].prev = p] ELSE m3
    IN IF p = pol.head
       THEN pol
       ELSE [pol EXCEPT !.nodeMap = m4, !.head = p]

\* moveToFront, lines 97-114: the existing node of page p is spliced to head.
LRU_splice(pol, p) ==
    LET node == pol.nodeMap[p]
        m1 == IF node.prev # Null
              THEN [pol.nodeMap EXCEPT ![node.prev].next = node.next]
              ELSE pol.nodeMap
        m2 == IF node.next # Null
              THEN [m1 EXCEPT ![node.next].prev = node.prev]
              ELSE m1
        newTail == IF p = pol.tail THEN node.prev ELSE pol.tail
        m3 == [m2 EXCEPT ![p] = [prev |-> Null, next |-> pol.head]]
        m4 == IF pol.head # Null THEN [m3 EXCEPT ![pol.head].prev = p] ELSE m3
    IN IF p = pol.head
       THEN pol
       ELSE [pol EXCEPT !.nodeMap = m4, !.tail = newTail, !.head = p]

addToFront(pol, p) ==
    IF p \in DOMAIN pol.nodeMap THEN LRU_splice(pol, p) ELSE LRU_linkNew(pol, p)

moveToFront(pol, p) ==
    IF p \notin DOMAIN pol.nodeMap THEN LRU_linkNew(pol, p) ELSE LRU_splice(pol, p)

LRU_onEvict(pol, p) ==
    IF p \notin DOMAIN pol.nodeMap
    THEN pol
    ELSE LET node == pol.nodeMap[p]
             m1 == IF node.prev # Null
                   THEN [pol.nodeMap EXCEPT ![node.prev].next = node.next]
                   ELSE pol.nodeMap
             m2 == IF node.next # Null
                   THEN [m1 EXCEPT ![node.next].prev = node.prev]
                   ELSE m1
         IN [pol EXCEPT !.head = IF p = pol.head THEN node.next ELSE @,
                        !.tail = IF p = pol.tail THEN node.prev ELSE @,
                        !.nodeMap = [q \in DOMAIN m2 \ {p} |-> m2[q]]]

\* LRU.getOrder: page ids from head following next (at most n nodes).
RECURSIVE LRU_walk(_, _, _)
LRU_walk(pol, cur, n) ==
    IF cur = Null \/ n = 0 \/ cur \notin DOMAIN pol.nodeMap
    THEN <<>>
    ELSE <<cur>> \o LRU_walk(pol, pol.nodeMap[cur].next, n - 1)

getOrder(pol) == LRU_walk(pol, pol.head, Cardinality(DOMAIN pol.nodeMap) + 1)

\* ------------------------------------------- policy dispatch (engine calls)
selectVictim(s, ramPages) ==
    IF s.policy.name = "FIFO"
    THEN FIFO_selectVictim(s.pages, ramPages)
    ELSE LRU_selectVictim(s.policy, s.pages, ramPages)

\* PolicyInterface.onPageAccess / LRU.onPageAccess
onPageAccess(s, p, timestamp) ==
    LET s1 == [s EXCEPT !.pages[p] = access(@, timestamp)]
    IN IF s.policy.name = "LRU"
       THEN [s1 EXCEPT !.policy = moveToFront(@, p)]
       ELSE s1

onPageLoad(s, p, timestamp) ==
    LET s1 == IF s.policy.name = "FIFO"
              THEN FIFO_onPageLoad(s, p, timestamp)
              ELSE [s EXCEPT !.policy = addToFront(@, p)]
    IN [s1 EXCEPT !.tracked = @ \cup {p}]

onEvict(s, p) ==
    LET s1 == IF s.policy.name = "FIFO"
              THEN FIFO_onEvict(s, p)
              ELSE [s EXCEPT !.policy = LRU_onEvict(@, p)]
    IN [s1 EXCEPT !.tracked = @ \ {p}]

\* FIFO.reset / LRU.reset: same object, tracking cleared.
policyReset(s) ==
    [s EXCEPT !.policy = IF @.name = "FIFO" THEN NewFIFO ELSE NewLRU,
              !.tracked = {}]

\* --------------------------------------------------------- SimulationEngine
ZeroStats ==
    [totalPageFaults |-> 0, swapInCount |-> 0, swapOutCount |-> 0,
     memoryAccesses |-> 0, hitCount |-> 0]

NoAccess == [page |-> Null, result |-> "none"]

\* What a configuration call started from.
Summary(s) ==
    [config |-> s.config,
     policy |-> s.policy.name,
     tracked |-> s.tracked # {},
     resident |-> \E p \in DOMAIN s.pages : s.pages[p].location = "ram",
     dropped |-> \E p \in DOMAIN s.pages :
                    /\ s.pages[p].location = "ram"
                    /\ \A f \in DOMAIN s.frames : s.frames[f] # p,
     isThrashing |-> s.isThrashing]

NoSummary ==
    [config |-> [ramFrames |-> 0, swapBlocks |-> 0, policy |-> ""],
     policy |-> "", tracked |-> FALSE,
     resident |-> FALSE, dropped |-> FALSE, isThrashing |-> FALSE]

NoCall == [op |-> "none", policy |-> "", result |-> "", before |-> NoSummary]

\* The engine after a reset() or setPolicy() call, with the call noted.
Called(s, op, policyName, before) ==
    [s EXCEPT !.lastCall = [op |-> op, policy |-> policyName, result |-> "returned",
                            before |-> before]]

\* The keys of engine.callbacks.
EventNames ==
    {"onPageAllocated", "onPageEvicted", "onPageSwappedIn", "onPageSwappedOut",
     "onPageAccessed", "onPageFault", "onThrashingChange", "onStatsUpdate",
     "onProcessAdded", "onSimulationStep"}

\* engine.on(event, callback): only the known keys are accepted.
on(s, event) ==
    IF event \in EventNames THEN [s EXCEPT !.callbacks = @ \cup {event}] ELSE s

\* What a callback that is handed page p can read at the moment it is
\* invoked: the page's location, and whether the page, the frames and the
\* blocks agree on where it is.
PageView(s, p) ==
    LET pg == s.pages[p]
    IN [location |-> pg.location,
        consistent |->
            /\ \A f \in DOMAIN s.frames :
                  (pg.location = "ram" /\ pg.frameId = f) <=> s.frames[f] = p
            /\ \A b \in DOMAIN s.blocks :
                  (pg.location = "disk" /\ pg.diskBlockId = b) <=> s.blocks[b] = p
            /\ pg.location = "ram" => pg.frameId \in DOMAIN s.frames
            /\ pg.location = "disk" => pg.diskBlockId \in DOMAIN s.blocks]

\* A callback invocation: recorded when a callback is registered for it,
\* for a page event together with what the callback can read of the page.
emit(s, name, page, value) ==
    IF name \in s.callbacks
    THEN [s EXCEPT !.events =
            Append(@, IF page = Null
                      THEN [name |-> name, page |-> page, value |-> value]
                      ELSE [name |-> name, page |-> page, value |-> value,
                            seen |-> PageView(s, page)])]
    ELSE s

\* String.prototype.toUpperCase on the policy identifiers in use.
toUpperCase(str) ==
    CASE str = "fifo" -> "FIFO"
      [] str = "lru" -> "LRU"
      [] str = "mru" -> "MRU"
      [] OTHER -> str

initializeFrames(s) ==
    [s EXCEPT !.frames = [f \in 0..(s.config.ramFrames - 1) |-> Null],
              !.freeFrames = Iota(s.config.ramFrames)]

setPolicy(s, policyName) ==
    [s EXCEPT !.policy = IF toUpperCase(policyName) = "FIFO" THEN NewFIFO ELSE NewLRU,
              !.tracked = {},
              !.config.policy = policyName]

\* Mutant of allocatePageToFrame: the page keeps the loadTime it had.
allocatePageToFrame_keepsLoadTime(s, p) ==
    IF Len(s.freeFrames) = 0
    THEN s
    ELSE LET f == Head(s.freeFrames)
             s1 == [s EXCEPT !.freeFrames = Tail(@),
                             !.frames[f] = p,
                             !.pages[p] = moveToRAM(@, f, @.loadTime)]
         IN emit(onPageLoad(s1, p, s.simulationTime), "onPageAllocated", p, "")

allocatePageToFrame(s, p) ==
    IF Len(s.freeFrames) = 0
    THEN s
    ELSE LET f == Head(s.freeFrames)
             s1 == [s EXCEPT !.freeFrames = Tail(@),
                             !.frames[f] = p,
                             !.pages[p] = moveToRAM(@, f, s.simulationTime)]
         IN emit(onPageLoad(s1, p, s.simulationTime), "onPageAllocated", p, "")

\* Pages held by frames, in frame order (the ramPages array of evictPage).
RamPages(s) == SelectSeq(AsSeq(s.frames), LAMBDA x : x # Null)

Range(sq) == {sq[i] : i \in 1..Len(sq)}

\* What one evictPage call did, observed when it ran.
EvictObservation(s, ramPages, victim, freed, block) ==
    [policy |-> s.policy.name,
     empty |-> Len(ramPages) = 0,
     victim |-> victim,
     held |-> victim \in Range(ramPages),
     tail |-> s.policy.tail,
     lruMin |-> victim # Null /\ \A q \in Range(ramPages) :
                   s.pages[victim].lastAccessTime <= s.pages[q].lastAccessTime,
     oldest |-> victim # Null /\ \A q \in Range(ramPages) :
                   s.pages[victim].loadTime <= s.pages[q].loadTime,
     lowestTie |-> victim # Null /\ \A q \in Range(ramPages) :
                   s.pages[q].loadTime = s.pages[victim].loadTime => victim <= q,
     tracked |-> victim \in s.tracked,
     freed |-> freed,
     freeFrame |-> Len(s.freeFrames) > 0,
     freeBlock |-> Len(s.freeBlocks) > 0,
     block |-> block]

\* Mutant of evictPage: the freed frame is not put on the free-frame list.
evictPage_forgetsFreeList(s) ==
    LET ramPages == RamPages(s)
        victim == selectVictim(s, ramPages)
    IN IF victim = Null
       THEN [s EXCEPT !.evictLog =
                Append(@, EvictObservation(s, ramPages, Null, Null, Null))]
       ELSE LET f == s.pages[victim].frameId
                hasFrame == f \in DOMAIN s.frames
                s1 == IF hasFrame
                      THEN [s EXCEPT !.frames[f] = Null]
                      ELSE s
                s2 == onEvict(emit(s1, "onPageEvicted", victim, ""), victim)
                r == allocateBlock(s2, victim)
            IN emit([r.st EXCEPT
                       !.stats.swapOutCount = @ + 1,
                       !.evictLog = Append(@, EvictObservation(s, ramPages, victim,
                                        IF hasFrame THEN s.frames[f] ELSE Null,
                                        r.block))],
                    "onPageSwappedOut", victim, "")

evictPage(s) ==
    LET ramPages == RamPages(s)
        victim == selectVictim(s, ramPages)
    IN IF victim = Null
       THEN [s EXCEPT !.evictLog =
                Append(@, EvictObservation(s, ramPages, Null, Null, Null))]
       ELSE LET f == s.pages[victim].frameId
                hasFrame == f \in DOMAIN s.frames
                s1 == IF hasFrame
                      THEN [s EXCEPT !.frames[f] = Null,
                                     !.freeFrames = Append(@, f)]
                      ELSE s
                s2 == onEvict(emit(s1, "onPageEvicted", victim, ""), victim)
                r == allocateBlock(s2, victim)
            IN emit([r.st EXCEPT
                       !.stats.swapOutCount = @ + 1,
                       !.evictLog = Append(@, EvictObservation(s, ramPages, victim,
                                        IF hasFrame THEN s.frames[f] ELSE Null,
                                        r.block))],
                    "onPageSwappedOut", victim, "")

BoolText(b) == IF b THEN "true" ELSE "false"

\* Mutant of checkThrashing: the callback is invoked whenever the engine is
\* found thrashing, not only when the flag changes.
checkThrashing_levelTriggered(s) ==
    LET ioRate == getIORate(s)
        wasThrashing == s.isThrashing
        s1 == [s EXCEPT !.isThrashing = ioRate >= ThrashingThreshold]
        s2 == IF s1.isThrashing
              THEN emit(s1, "onThrashingChange", Null, BoolText(s1.isThrashing))
              ELSE s1
    IN [s2 EXCEPT !.thrashLog =
          Append(@, [was |-> wasThrashing, ioRate |-> ioRate, is |-> s1.isThrashing,
                     listening |-> "onThrashingChange" \in s.callbacks,
                     emitted |-> SubSeq(s2.events, Len(s.events) + 1, Len(s2.events))])]

checkThrashing(s) ==
    LET ioRate == getIORate(s)
        wasThrashing == s.isThrashing
        s1 == [s EXCEPT !.isThrashing = ioRate >= ThrashingThreshold]
        s2 == IF wasThrashing # s1.isThrashing
              THEN emit(s1, "onThrashingChange", Null, BoolText(s1.isThrashing))
              ELSE s1
    IN [s2 EXCEPT !.thrashLog =
          Append(@, [was |-> wasThrashing, ioRate |-> ioRate, is |-> s1.isThrashing,
                     listening |-> "onThrashingChange" \in s.callbacks,
                     emitted |-> SubSeq(s2.events, Len(s.events) + 1, Len(s2.events))])]

handlePageFault(s, p) ==
    LET s1 == emit([s EXCEPT !.stats.totalPageFaults = @ + 1], "onPageFault", p, "")
        s2 == IF Len(s1.freeFrames) = 0 THEN evictPage(s1) ELSE s1
        pg == s2.pages[p]
        s3 == IF pg.location = "disk" /\ pg.diskBlockId # Null
              THEN emit([freeBlock(s2, pg.diskBlockId) EXCEPT !.stats.swapInCount = @ + 1],
                        "onPageSwappedIn", p, "")
              ELSE s2
    IN checkThrashing(allocatePageToFrame(s3, p))

\* Mutant of accessPage: the residence test never succeeds, every access is
\* served as a fault.
accessPage_missesResident(s, p) ==
    IF p = Null
    THEN s
    ELSE [handlePageFault([s EXCEPT !.stats.memoryAccesses = @ + 1], p)
            EXCEPT !.lastAccess = [page |-> p, result |-> "fault"]]

accessPage(s, p) ==
    IF p = Null
    THEN s
    ELSE LET s1 == [s EXCEPT !.stats.memoryAccesses = @ + 1]
         IN IF s1.pages[p].location = "ram"
            THEN [emit(onPageAccess([s1 EXCEPT !.stats.hitCount = @ + 1],
                                    p, s1.simulationTime),
                       "onPageAccessed", p, "hit")
                    EXCEPT !.lastAccess = [page |-> p, result |-> "hit"]]
            ELSE [handlePageFault(s1, p)
                    EXCEPT !.lastAccess = [page |-> p, result |-> "fault"]]

\* Process constructor + createPages.  optLocality records options.locality
\* as it was passed, in tenths.
NewProcess(id, pageCount, optLocality, startId) ==
    [id |-> id, pageCount |-> pageCount, optLocality |-> optLocality,
     locality |-> IF optLocality = 0 THEN 7 ELSE optLocality,
     workingSetSize |-> Ceil4Tenths(pageCount),
     pages |-> [i \in 1..pageCount |-> startId + i - 1]]

RECURSIVE allocateInitialPages(_, _, _)
allocateInitialPages(s, procPages, i) ==
    IF i > Len(procPages)
    THEN s
    ELSE allocateInitialPages(
             IF Len(s.freeFrames) > 0
             THEN allocatePageToFrame(s, procPages[i])
             ELSE LET r == allocateBlock(s, procPages[i])
                  IN IF r.block # Null
                     THEN emit(r.st, "onPageSwappedOut", procPages[i], "")
                     ELSE r.st,
             procPages, i + 1)

addProcess(s, pageCount, optLocality) ==
    LET processId == Len(s.processes)
        process == NewProcess(processId, pageCount, optLocality, s.pageIdCounter)
        newIds == Range(process.pages)
        s1 == [s EXCEPT
                 !.pages = [q \in DOMAIN s.pages \cup newIds |->
                               IF q \in newIds THEN NewPage(processId)
                               ELSE s.pages[q]],
                 !.pageIdCounter = @ + pageCount,
                 !.processes = Append(@, process)]
        s2 == allocateInitialPages(s1, process.pages, 1)
    IN emit([s2 EXCEPT !.residentAtStart =
                IF \A q \in newIds : s2.pages[q].location = "ram"
                THEN @ \cup {processId} ELSE @],
            "onProcessAdded", Null, "")

\* window.cancelAnimationFrame(handle).
cancelAnimationFrame(s, handle) ==
    [s EXCEPT !.pendingFrames = @ \ {handle}]

\* Mutant of pause: the pending frame is cancelled, the flag is not set.
pause_onlyCancels(s) ==
    IF s.animationFrameId # Null
    THEN [cancelAnimationFrame(s, s.animationFrameId) EXCEPT !.animationFrameId = Null]
    ELSE s

\* pause(): the gate is closed and the requested frame, if any, cancelled.
pause(s) ==
    LET s1 == [s EXCEPT !.isPaused = TRUE]
    IN IF s1.animationFrameId # Null
       THEN [cancelAnimationFrame(s1, s1.animationFrameId) EXCEPT !.animationFrameId = Null]
       ELSE s1

\* Mutant of reset: the swap system is left as it is.
reset_keepsSwap(s) ==
    LET s1 == [pause(s) EXCEPT !.processes = <<>>,
                        !.pages = <<>>,
                        !.pageIdCounter = 0,
                        !.simulationTime = 0,
                        !.isRunning = FALSE,
                        !.isPaused = FALSE,
                        !.isThrashing = FALSE,
                        !.residentAtStart = {},
                        !.stats = ZeroStats]
    IN policyReset(initializeFrames(s1))

reset(s) ==
    LET s1 == [pause(s) EXCEPT !.processes = <<>>,
                        !.pages = <<>>,
                        !.pageIdCounter = 0,
                        !.simulationTime = 0,
                        !.isRunning = FALSE,
                        !.isPaused = FALSE,
                        !.isThrashing = FALSE,
                        !.residentAtStart = {},
                        !.stats = ZeroStats]
    IN policyReset(swapReset(initializeFrames(s1)))

\* newConfig: a key that is absent is Null (numbers) or "" (policy).
updateConfig(s, newConfig) ==
    LET needsReinit == \/ newConfig.ramFrames # s.config.ramFrames
                       \/ newConfig.swapBlocks # s.config.swapBlocks
        s1 == [s EXCEPT
                 !.config.ramFrames =
                     IF newConfig.ramFrames # Null THEN newConfig.ramFrames ELSE @,
                 !.config.swapBlocks =
                     IF newConfig.swapBlocks # Null THEN newConfig.swapBlocks ELSE @,
                 !.config.policy =
                     IF newConfig.policy # "" THEN newConfig.policy ELSE @]
        s2 == IF needsReinit THEN reset(s1) ELSE s1
    IN IF newConfig.policy # "" THEN setPolicy(s2, newConfig.policy) ELSE s2

RECURSIVE addProcesses(_, _, _)
addProcesses(s, procDefs, i) ==
    IF i > Len(procDefs)
    THEN s
    ELSE addProcesses(addProcess(s, procDefs[i].pages, procDefs[i].locality),
                      procDefs, i + 1)

loadScenario(s, scenario) ==
    addProcesses(updateConfig(reset(s), scenario.config), scenario.processes, 1)

\* Mutant of the working-set sort: ascending lastAccessTime.
WorkingSet_sortsAscending(s, process) ==
    LET own == Range(process.pages)
        Before(q, p) == \/ s.pages[q].lastAccessTime < s.pages[p].lastAccessTime
                        \/ /\ s.pages[q].lastAccessTime = s.pages[p].lastAccessTime
                           /\ q < p
    IN {p \in own : Cardinality({q \in own : Before(q, p)}) < process.workingSetSize}

\* ------------------------------------------- Process / WorkloadGenerator
\* Process.getRandomPageToAccess, working-set branch: the first
\* workingSetSize pages of the stable sort by descending lastAccessTime.
WorkingSet(s, process) ==
    LET own == Range(process.pages)
        Before(q, p) == \/ s.pages[q].lastAccessTime > s.pages[p].lastAccessTime
                        \/ /\ s.pages[q].lastAccessTime = s.pages[p].lastAccessTime
                           /\ q < p
    IN {p \in own : Cardinality({q \in own : Before(q, p)}) < process.workingSetSize}

\* Pages getRandomPageToAccess can return: Math.random() is in [0, 1), so
\* the working-set branch needs locality > 0 and the uniform branch needs
\* locality < 1.
getRandomPageToAccess(s, process) ==
    (IF process.locality > 0 THEN WorkingSet(s, process) ELSE {})
    \cup (IF process.locality < 10 THEN Range(process.pages) ELSE {})

\* WorkloadGenerator.generateAccess: every process with pages can be drawn.
generateAccess(s) ==
    IF Len(s.processes) = 0
    THEN {Null}
    ELSE UNION {getRandomPageToAccess(s, s.processes[i]) :
                    i \in 1..Len(s.processes)}

\* WorkloadGenerator.setIntensity: clamped to [0.1, 10].
setIntensity(s, newIntensity) ==
    [s EXCEPT !.intensity = IF newIntensity < 1 THEN 1
                            ELSE IF newIntensity > 100 THEN 100 ELSE newIntensity]

\* Mutant of generateBatch: count * intensity is rounded down.
generateBatch_roundsDown(s, count) ==
    LET effectiveCount == (count * s.intensity) \div 10
    IN IF Null \in generateAccess(s)
       THEN {<<>>}
       ELSE [1..effectiveCount -> generateAccess(s)]

\* WorkloadGenerator.generateBatch: ceil(count * intensity) accesses, all
\* drawn before any of them is served.
generateBatch(s, count) ==
    LET effectiveCount == (count * s.intensity + 9) \div 10
    IN IF Null \in generateAccess(s)
       THEN {<<>>}
       ELSE [1..effectiveCount -> generateAccess(s)]

RECURSIVE accessAll(_, _, _)
accessAll(s, accesses, i) ==
    IF i > Len(accesses)
    THEN s
    ELSE accessAll(accessPage(s, accesses[i]), accesses, i + 1)

\* Number.prototype.toFixed(1) of a / b * 100, as a count of tenths.
PercentToFixed1(a, b) == (2000 * a + b) \div (2 * b)

\* getStats(): the snapshot fields that are computed.  hitRatio is the number
\* 0 before the first access and afterwards the text of a percentage with
\* one decimal; tenths is ten times the numeric value of either.
getStats(s) ==
    [totalPageFaults |-> s.stats.totalPageFaults,
     swapInCount |-> s.stats.swapInCount,
     swapOutCount |-> s.stats.swapOutCount,
     diskIORate |-> getIORate(s),
     ramUsed |-> Cardinality({f \in DOMAIN s.frames : s.frames[f] # Null}),
     ramTotal |-> s.config.ramFrames,
     swapUsed |-> Cardinality({b \in DOMAIN s.blocks : s.blocks[b] # Null}),
     swapTotal |-> s.blockCount,
     memoryAccesses |-> s.stats.memoryAccesses,
     hitCount |-> s.stats.hitCount,
     hitRatio |-> IF s.stats.memoryAccesses > 0
                  THEN [text |-> TRUE,
                        tenths |-> PercentToFixed1(s.stats.hitCount,
                                                   s.stats.memoryAccesses)]
                  ELSE [text |-> FALSE, tenths |-> 0],
     isThrashing |-> s.isThrashing,
     thrashingLevel |-> LET level == (getIORate(s) * 100) \div ThrashingThreshold
                        IN IF level > 100 THEN 100 ELSE level,
     simulationTime |-> s.simulationTime,
     currentPolicy |-> s.policy.name]

\* Mutant of step: the two notifications are sent after every access.
step_notifiesPerAccess(s, accesses) ==
    LET s1 == accessAll(s, accesses, 1)
        s2 == checkThrashing([s1 EXCEPT !.simulationTime = @ + AccessInterval])
        notify(t) == emit(emit(t, "onSimulationStep", Null, ""), "onStatsUpdate", Null, "")
    IN IF Len(accesses) > 0 THEN notify(notify(s2)) ELSE notify(s2)

\* Mutant of step: the clock advances before the accesses are served.
step_advancesFirst(s, accesses) ==
    LET s1 == accessAll([s EXCEPT !.simulationTime = @ + AccessInterval], accesses, 1)
        s2 == checkThrashing(s1)
    IN emit(emit(s2, "onSimulationStep", Null, ""), "onStatsUpdate", Null, "")

\* step(): the generated accesses are served, the clock advances, thrashing
\* is evaluated and the two notifications are sent.
step(s, accesses) ==
    LET s1 == accessAll(s, accesses, 1)
        s2 == checkThrashing([s1 EXCEPT !.simulationTime = @ + AccessInterval])
    IN emit(emit(s2, "onSimulationStep", Null, ""), "onStatsUpdate", Null, "")

\* window.requestAnimationFrame(callback): a handle that no requested frame
\* holds.  Handles are positive; only their identity matters, the smallest
\* one not in use is taken.
requestAnimationFrame(s) ==
    LET handle == CHOOSE h \in 1..(Cardinality(s.pendingFrames) + 1) :
                      /\ h \notin s.pendingFrames
                      /\ \A g \in 1..(h - 1) : g \in s.pendingFrames
    IN [s EXCEPT !.pendingFrames = @ \cup {handle}, !.animationFrameId = handle]

\* Mutant of runLoop: the next frame is requested only after a step.
runLoop_requestsAfterStep(s, accesses) ==
    IF ~s.isRunning \/ s.isPaused
    THEN s
    ELSE LET elapsed == s.now - s.lastStepTime
         IN IF elapsed * s.speed >= AccessInterval * 10
            THEN requestAnimationFrame([step(s, accesses) EXCEPT !.lastStepTime = s.now])
            ELSE s

\* runLoop(): one scheduler tick.  elapsed >= accessInterval / speed, with
\* speed in tenths; accesses is the batch step() draws when it runs.
runLoop(s, accesses) ==
    IF ~s.isRunning \/ s.isPaused
    THEN s
    ELSE LET elapsed == s.now - s.lastStepTime
             s1 == IF elapsed * s.speed >= AccessInterval * 10
                   THEN [step(s, accesses) EXCEPT !.lastStepTime = s.now]
                   ELSE s
         IN requestAnimationFrame(s1)

\* Mutant of play: the test for an engine already running is missing.
play_ignoresRunning(s) ==
    runLoop([s EXCEPT !.isRunning = TRUE, !.isPaused = FALSE, !.lastStepTime = s.now],
            <<>>)

\* play(): lastStepTime is now, so the runLoop call made here takes no step.
play(s) ==
    IF s.isRunning /\ ~s.isPaused
    THEN s
    ELSE runLoop([s EXCEPT !.isRunning = TRUE, !.isPaused = FALSE,
                           !.lastStepTime = s.now],
                 <<>>)

\* setSpeed(speed): clamped to [0.1, 10].
setSpeed(s, newSpeed) ==
    [s EXCEPT !.speed = IF newSpeed < 1 THEN 1
                        ELSE IF newSpeed > 100 THEN 100 ELSE newSpeed]

\* ------------------------------------------------------------ specification
\* Every public call starts with an empty observation log.
Begin(s) ==
    [s EXCEPT !.evictLog = <<>>, !.lastAccess = NoAccess,
              !.events = <<>>, !.thrashLog = <<>>, !.lastCall = NoCall]

\* new SimulationEngine(): default config, initialize().  The default pool
\* sizes are scaled down: MaxFrames frames and defaultSwapBlocks blocks.
Constructed(defaultSwapBlocks) ==
    LET fields == [config |-> [ramFrames |-> MaxFrames,
                               swapBlocks |-> defaultSwapBlocks,
                               policy |-> "LRU"],
                   frames |-> <<>>, freeFrames |-> <<>>,
                   blockCount |-> defaultSwapBlocks,
                   blocks |-> <<>>, freeBlocks |-> <<>>,
                   pages |-> <<>>, pageIdCounter |-> 0, processes |-> <<>>,
                   policy |-> NewLRU, simulationTime |-> 0, stats |-> ZeroStats,
                   now |-> 0, ioOperations |-> <<>>, isThrashing |-> FALSE,
                   callbacks |-> {}, intensity |-> DefaultIntensity,
                   isRunning |-> FALSE, isPaused |-> FALSE, speed |-> DefaultSpeed,
                   lastStepTime |-> 0, animationFrameId |-> Null,
                   pendingFrames |-> {},
                   events |-> <<>>, ioHistory |-> <<>>, thrashLog |-> <<>>,
                   lastCall |-> NoCall, residentAtStart |-> {},
                   evictLog |-> <<>>, tracked |-> {}, lastAccess |-> NoAccess]
    IN setPolicy(initializeBlocks(initializeFrames(fields)), fields.config.policy)

StartsAs(s) ==
    /\ config = s.config
    /\ frames = s.frames
    /\ freeFrames = s.freeFrames
    /\ blockCount = s.blockCount
    /\ blocks = s.blocks
    /\ freeBlocks = s.freeBlocks
    /\ pages = s.pages
    /\ pageIdCounter = s.pageIdCounter
    /\ processes = s.processes
    /\ policy = s.policy
    /\ simulationTime = s.simulationTime
    /\ stats = s.stats
    /\ now = s.now
    /\ ioOperations = s.ioOperations
    /\ isThrashing = s.isThrashing
    /\ callbacks = s.callbacks
    /\ intensity = s.intensity
    /\ isRunning = s.isRunning
    /\ isPaused = s.isPaused
    /\ speed = s.speed
    /\ lastStepTime = s.lastStepTime
    /\ animationFrameId = s.animationFrameId
    /\ pendingFrames = s.pendingFrames
    /\ events = s.events
    /\ ioHistory = s.ioHistory
    /\ thrashLog = s.thrashLog
    /\ lastCall = s.lastCall
    /\ residentAtStart = s.residentAtStart
    /\ evictLog = s.evictLog
    /\ tracked = s.tracked
    /\ lastAccess = s.lastAccess
    /\ refPos = 0

Init == \E defaultSwapBlocks \in SwapChoices : StartsAs(Constructed(defaultSwapBlocks))

\* A freshly constructed engine to which one configuration has been applied.
InitConfigured ==
    \E defaultSwapBlocks \in SwapChoices, ramFrames \in FrameChoices,
       policyName \in PolicyNames :
        StartsAs(updateConfig(Constructed(defaultSwapBlocks),
                              [ramFrames |-> ramFrames,
                               swapBlocks |-> defaultSwapBlocks,
                               policy |-> policyName]))

\* updateConfig arguments: a full configuration (as the controls send it),
\* one without the policy key, and one with the policy key only.
NewConfigs ==
    [ramFrames : FrameChoices, swapBlocks : SwapChoices,
     policy : PolicyNames \cup {""}]
    \cup [ramFrames : {Null}, swapBlocks : {Null}, policy : PolicyNames]

\* Scaled-down versions of three built-in scenarios: "light" (everything
\* fits in RAM), "heavy" (more pages than frames) and "belady" (FIFO).
Scenarios ==
    {[config |-> [ramFrames |-> MaxFrames, swapBlocks |-> MaxBlocks, policy |-> "LRU"],
      processes |-> <<[pages |-> 1, locality |-> 10]>>],
     [config |-> [ramFrames |-> 1, swapBlocks |-> MaxBlocks, policy |-> "LRU"],
      processes |-> <<[pages |-> 2, locality |-> 7], [pages |-> 1, locality |-> 7]>>],
     [config |-> [ramFrames |-> 1, swapBlocks |-> 1, policy |-> "FIFO"],
      processes |-> <<[pages |-> MaxPages, locality |-> 7]>>]}

AddProcess ==
    /\ \E pageCount \in 1..MaxPages, optLocality \in LocalityOptions :
          /\ pageIdCounter + pageCount <= MaxPages
          /\ Len(processes) < MaxProcs
          /\ Install(addProcess(Begin(Engine), pageCount, optLocality))
    /\ UNCHANGED refPos

AccessPage ==
    /\ stats.memoryAccesses < MaxAccesses
    /\ \E p \in DOMAIN pages : Install(accessPage(Begin(Engine), p))
    /\ UNCHANGED refPos

Step ==
    /\ stats.memoryAccesses < MaxAccesses
    /\ simulationTime < MaxSteps * AccessInterval
    /\ \E accesses \in generateBatch(Engine, 1) :
          Install(step(Begin(Engine), accesses))
    /\ UNCHANGED refPos

UpdateConfig ==
    /\ \E newConfig \in NewConfigs : Install(updateConfig(Begin(Engine), newConfig))
    /\ UNCHANGED refPos

Reset ==
    /\ Install(Called(reset(Begin(Engine)), "reset", "", Summary(Engine)))
    /\ UNCHANGED refPos

LoadScenario ==
    /\ \E scenario \in Scenarios : Install(loadScenario(Begin(Engine), scenario))
    /\ UNCHANGED refPos

Next ==
    \/ AddProcess
    \/ AccessPage
    \/ Step
    \/ UpdateConfig
    \/ Reset
    \/ LoadScenario

Spec == Init /\ [][Next]_vars

\* engine.setPolicy(policyName).
SetPolicy ==
    /\ \E policyName \in PolicyInputs :
          Install(Called(setPolicy(Begin(Engine), policyName),
                         "setPolicy", policyName, Summary(Engine)))
    /\ UNCHANGED refPos

\* engine.updateConfig({ policy: policyName }): no other key is given.
UpdateConfigPolicy ==
    /\ \E policyName \in PolicyInputs :
          Install(Called(updateConfig(Begin(Engine),
                                      [ramFrames |-> Null, swapBlocks |-> Null,
                                       policy |-> policyName]),
                         "updateConfig", policyName, Summary(Engine)))
    /\ UNCHANGED refPos

\* Policy selection on a running engine.
NextPolicy ==
    \/ AddProcess
    \/ AccessPage
    \/ SetPolicy
    \/ UpdateConfigPolicy

SpecPolicy == Init /\ [][NextPolicy]_vars

\* A client has registered a callback for every event, then applied a
\* configuration.
InitObserved ==
    \E defaultSwapBlocks \in SwapChoices, ramFrames \in FrameChoices,
       policyName \in PolicyNames :
        LET listening == [Constructed(defaultSwapBlocks) EXCEPT
                            !.callbacks = UNION {on(Constructed(defaultSwapBlocks), e).callbacks :
                                                    e \in EventNames}]
        IN StartsAs(updateConfig(listening,
                                 [ramFrames |-> ramFrames,
                                  swapBlocks |-> defaultSwapBlocks,
                                  policy |-> policyName]))

\* Wall-clock time passes between two calls: half an I/O window.
Tick ==
    /\ now < MaxTicks * (IoWindow \div 2)
    /\ now' = now + IoWindow \div 2
    /\ UNCHANGED <<config, frames, freeFrames, blockCount, blocks, freeBlocks,
                   pages, pageIdCounter, processes, policy, simulationTime, stats,
                   ioOperations, isThrashing, callbacks, intensity,
                   isRunning, isPaused, speed, lastStepTime, animationFrameId,
                   pendingFrames,
                   events, ioHistory, thrashLog, lastCall, residentAtStart,
                   evictLog, tracked, lastAccess, refPos>>

NextObserved ==
    \/ AddProcess
    \/ AccessPage
    \/ Step
    \/ Tick

SpecObserved == InitObserved /\ [][NextObserved]_vars

\* Arguments of setIntensity: one and two accesses per step.
IntensityInputs == {DefaultIntensity, 2 * DefaultIntensity}

SetIntensity ==
    /\ \E newIntensity \in IntensityInputs :
          /\ newIntensity # intensity
          /\ Install(setIntensity(Begin(Engine), newIntensity))
    /\ UNCHANGED refPos

\* The observed engine with a workload of one or two accesses per step.
NextEvents ==
    \/ AddProcess
    \/ AccessPage
    \/ Step
    \/ SetIntensity

SpecEvents == InitObserved /\ [][NextEvents]_vars

\* Arguments of setSpeed: below the range, the default, above the range.
SpeedInputs == {0, DefaultSpeed, 20 * DefaultSpeed}

\* Wall-clock time that passes between two calls: the default step interval
\* or the longest one.
WaitChoices == {AccessInterval, 10 * AccessInterval}

ClockHorizon == MaxWaits * 10 * AccessInterval

Play ==
    /\ Install(Called(play(Begin(Engine)), "play", "", NoSummary))
    /\ UNCHANGED refPos

Pause ==
    /\ Install(Called(pause(Begin(Engine)), "pause", "", NoSummary))
    /\ UNCHANGED refPos

SetSpeed ==
    /\ \E newSpeed \in SpeedInputs :
          Install(Called(setSpeed(Begin(Engine), newSpeed), "setSpeed", "", NoSummary))
    /\ UNCHANGED refPos

\* The browser runs one requested animation frame: the runLoop callback.
AnimationFrame ==
    /\ simulationTime < MaxRunSteps * AccessInterval
    /\ \E handle \in pendingFrames, accesses \in generateBatch(Engine, 1) :
          Install(Called(runLoop([Begin(Engine) EXCEPT !.pendingFrames = @ \ {handle}],
                                 accesses),
                         "runLoop", "", NoSummary))
    /\ UNCHANGED refPos

Elapse ==
    /\ \E wait \in WaitChoices :
          /\ now + wait <= ClockHorizon
          /\ now' = now + wait
    /\ UNCHANGED <<config, frames, freeFrames, blockCount, blocks, freeBlocks,
                   pages, pageIdCounter, processes, policy, simulationTime, stats,
                   ioOperations, isThrashing, callbacks, intensity,
                   isRunning, isPaused, speed, lastStepTime, animationFrameId,
                   pendingFrames,
                   events, ioHistory, thrashLog, lastCall, residentAtStart,
                   evictLog, tracked, lastAccess, refPos>>

\* A scenario has been loaded into a freshly constructed engine.
InitPlay ==
    \E scenario \in Scenarios :
        StartsAs(loadScenario(Constructed(MaxBlocks), scenario))

\* The engine under its play / pause controls and the browser's scheduler.
NextPlay ==
    \/ Step
    \/ Play
    \/ Pause
    \/ SetSpeed
    \/ AnimationFrame
    \/ Elapse
    \/ Reset

SpecPlay == InitPlay /\ [][NextPlay]_vars

\* The engine plays and the time elapsed since its last step has reached
\* accessInterval / speed.
StepDue ==
    /\ isRunning
    /\ ~isPaused
    /\ (now - lastStepTime) * speed >= AccessInterval * 10
    /\ simulationTime < MaxRunSteps * AccessInterval

\* A requested frame whose runLoop call will step.
FrameDue == StepDue /\ pendingFrames # {}

NextPlaying ==
    \/ Play
    \/ Pause
    \/ SetSpeed
    \/ AnimationFrame
    \/ Elapse

\* The scheduler alone.  The wall clock keeps advancing up to its horizon,
\* and the browser keeps running requested frames: weak fairness of
\* AnimationFrame, with the enabling condition of a due frame written out.
SpecPlaying ==
    /\ InitPlay
    /\ [][NextPlaying]_vars
    /\ WF_vars(Elapse)
    /\ ([]<>(~FrameDue) \/ []<><<AnimationFrame>>_vars)

\* Arguments of setIntensity over the whole range: below it, 1.5 and above
\* it.
IntensityArguments == {0, 15, 100 * DefaultIntensity}

SetIntensityTo ==
    /\ \E newIntensity \in IntensityArguments :
          Install(setIntensity(Begin(Engine), newIntensity))
    /\ UNCHANGED refPos

\* A scenario is loaded, the intensity is set, the engine is stepped, with
\* its processes or after a reset without any.
NextWorkload ==
    \/ SetIntensityTo
    \/ Step
    \/ Reset

SpecWorkload == InitPlay /\ [][NextWorkload]_vars

\* The observed engine with its play and pause controls; the wall clock
\* stands still, so no scheduled step is due.
NextClock ==
    \/ AddProcess
    \/ AccessPage
    \/ Step
    \/ Play
    \/ Pause

SpecClock == InitObserved /\ [][NextClock]_vars

\* A client has registered a callback for every event on a freshly
\* constructed engine.
InitListening ==
    StartsAs([Constructed(MaxBlocks) EXCEPT
                !.callbacks = UNION {on(Constructed(MaxBlocks), e).callbacks :
                                        e \in EventNames}])

\* The observed engine through its whole life cycle: processes, accesses,
\* and the calls that reset it.
NextLifecycle ==
    \/ AddProcess
    \/ AccessPage
    \/ Step
    \/ UpdateConfig
    \/ Reset
    \/ LoadScenario

SpecLifecycle == InitListening /\ [][NextLifecycle]_vars

\* A swap pool with room for as many overflow pages as the thrashing
\* threshold counts I/O events (64 blocks in the source), under a
\* configuration of matching size.
InitLargeSwap ==
    \E ramFrames \in FrameChoices, policyName \in PolicyNames :
        StartsAs(updateConfig(Constructed(ThrashingThreshold),
                              [ramFrames |-> ramFrames,
                               swapBlocks |-> ThrashingThreshold,
                               policy |-> policyName]))

\* addProcess with page counts up to one frame plus the large swap pool.
AddLargeProcess ==
    /\ \E pageCount \in 1..(1 + ThrashingThreshold), optLocality \in LocalityOptions :
          /\ pageIdCounter + pageCount <= 1 + ThrashingThreshold
          /\ Len(processes) < MaxProcs
          /\ Install(addProcess(Begin(Engine), pageCount, optLocality))
    /\ UNCHANGED refPos

\* Processes that overflow into swap are registered, then accessed.
NextRegister ==
    \/ AddLargeProcess
    \/ AccessPage
    \/ Step

SpecRegister == InitLargeSwap /\ [][NextRegister]_vars

\* runLoop(): the step() of a continuous run.
RunLoop ==
    /\ simulationTime < MaxRunSteps * AccessInterval
    /\ \E accesses \in generateBatch(Engine, 1) :
          Install(step(Begin(Engine), accesses))
    /\ UNCHANGED refPos

\* Processes are registered, then the engine runs.
NextRun ==
    \/ AddProcess
    \/ RunLoop

SpecRun == InitConfigured /\ [][NextRun]_vars

\* addProcess, accessPage and step only, under any applied configuration.
NextCore ==
    \/ AddProcess
    \/ AccessPage
    \/ Step

SpecCore == InitConfigured /\ [][NextCore]_vars

\* ------------------------------------------------- the LRU policy on its own
\* Page ids handed to the policy object.
PolicyPageIds == 0..(MaxPages + 1)

LRUOnPageLoad ==
    /\ \E p \in PolicyPageIds :
          Install(Called([Begin(Engine) EXCEPT !.policy = addToFront(@, p)],
                         "onPageLoad", "LRU", NoSummary))
    /\ UNCHANGED refPos

LRUOnPageAccess ==
    /\ \E p \in PolicyPageIds :
          Install(Called([Begin(Engine) EXCEPT !.policy = moveToFront(@, p)],
                         "onPageAccess", "LRU", NoSummary))
    /\ UNCHANGED refPos

LRUOnEvict ==
    /\ \E p \in PolicyPageIds :
          Install(Called([Begin(Engine) EXCEPT !.policy = LRU_onEvict(@, p)],
                         "onEvict", "LRU", NoSummary))
    /\ UNCHANGED refPos

LRUReset ==
    /\ Install(Called(policyReset(Begin(Engine)), "policyReset", "LRU", NoSummary))
    /\ UNCHANGED refPos

\* Any sequence of calls on the LRU policy object of a constructed engine.
NextLRU ==
    \/ LRUOnPageLoad
    \/ LRUOnPageAccess
    \/ LRUOnEvict
    \/ LRUReset

SpecLRU == StartsAs(Constructed(MaxBlocks)) /\ [][NextLRU]_vars

\* ------------------------------------------ reference-string run under FIFO
\* The reference string of the Belady's-anomaly table; page ids are the
\* reference numbers.  No page is resident at the start, swap holds them all.
Ref == <<1, 2, 3, 4, 1, 2, 5, 1, 2, 3, 4, 5>>

BeladyFrames == {3, 4}

InitBelady ==
    /\ \E ramFrames \in BeladyFrames :
          /\ config = [ramFrames |-> ramFrames,
                       swapBlocks |-> Cardinality(Range(Ref)), policy |-> "FIFO"]
          /\ frames = [f \in 0..(ramFrames - 1) |-> Null]
          /\ freeFrames = Iota(ramFrames)
    /\ blockCount = Cardinality(Range(Ref))
    /\ blocks = [b \in 0..(blockCount - 1) |-> Null]
    /\ freeBlocks = Iota(blockCount)
    /\ pages = [p \in Range(Ref) |-> NewPage(0)]
    /\ pageIdCounter = Cardinality(Range(Ref)) + 1
    /\ processes = <<[id |-> 0, pageCount |-> Cardinality(Range(Ref)),
                      optLocality |-> 7, locality |-> 7,
                      workingSetSize |-> Ceil4Tenths(Cardinality(Range(Ref))),
                      pages |-> [i \in 1..Cardinality(Range(Ref)) |-> i]]>>
    /\ policy = NewFIFO
    /\ simulationTime = 0
    /\ stats = ZeroStats
    /\ now = 0
    /\ ioOperations = <<>>
    /\ isThrashing = FALSE
    /\ callbacks = {}
    /\ intensity = DefaultIntensity
    /\ isRunning = FALSE
    /\ isPaused = FALSE
    /\ speed = DefaultSpeed
    /\ lastStepTime = 0
    /\ animationFrameId = Null
    /\ pendingFrames = {}
    /\ events = <<>>
    /\ ioHistory = <<>>
    /\ thrashLog = <<>>
    /\ lastCall = NoCall
    /\ residentAtStart = {}
    /\ evictLog = <<>>
    /\ tracked = {}
    /\ lastAccess = NoAccess
    /\ refPos = 0

\* Serve the next reference, then let the clock advance by a positive
\* number of access intervals.
BeladyStep ==
    /\ refPos < Len(Ref)
    /\ \E k \in 1..MaxTickJump :
          Install([accessPage(Begin(Engine), Ref[refPos + 1])
                     EXCEPT !.simulationTime = @ + k * AccessInterval])
    /\ refPos' = refPos + 1

SpecBelady == InitBelady /\ [][BeladyStep]_vars

\* ------------------------------------------------------- state predicates
HeldByFrame(p) == \E f \in DOMAIN frames : frames[f] = p

HeldByBlock(p) == \E b \in DOMAIN blocks : blocks[b] = p

IsResident(p) ==
    pages[p].location = "ram" /\ pages[p].frameId # Null /\ pages[p].diskBlockId = Null

IsSwapped(p) ==
    pages[p].location = "disk" /\ pages[p].diskBlockId # Null /\ pages[p].frameId = Null

IsUnmapped(p) ==
    pages[p].location = "none" /\ pages[p].frameId = Null /\ pages[p].diskBlockId = Null

Evictions == {evictLog[i] : i \in 1..Len(evictLog)}

\* The policy object tracks no page.
PolicyTrackingEmpty ==
    /\ policy.queue = <<>>
    /\ policy.head = Null /\ policy.tail = Null
    /\ DOMAIN policy.nodeMap = {}
    /\ tracked = {}

\* Every frame is free and listed once, every block is free and listed once.
PoolsFree ==
    /\ \A f \in DOMAIN frames : frames[f] = Null
    /\ Len(freeFrames) = Cardinality(DOMAIN frames)
    /\ Range(freeFrames) = DOMAIN frames
    /\ \A b \in DOMAIN blocks : blocks[b] = Null
    /\ Len(freeBlocks) = Cardinality(DOMAIN blocks)
    /\ Range(freeBlocks) = DOMAIN blocks

\* Both pools have the configured sizes, and the snapshot reports them.
PoolsAsConfigured ==
    /\ Cardinality(DOMAIN frames) = config.ramFrames
    /\ Cardinality(DOMAIN blocks) = config.swapBlocks
    /\ getStats(Engine).ramTotal = Cardinality(DOMAIN frames)
    /\ getStats(Engine).swapTotal = config.swapBlocks

\* The state a full reset leaves.
FullyReset ==
    /\ processes = <<>>
    /\ DOMAIN pages = {}
    /\ pageIdCounter = 0
    /\ PoolsFree
    /\ PolicyTrackingEmpty
    /\ stats = ZeroStats
    /\ simulationTime = 0
    /\ isThrashing = FALSE

\* ------------------------------------------------------------------ claims
\* C1: every registered page is Resident ('ram', frameId set, no block id),
\* Swapped ('disk', block id set, no frameId) or Unmapped ('none', both null).
C1_PageLocationStates ==
    \A p \in DOMAIN pages : IsResident(p) \/ IsSwapped(p) \/ IsUnmapped(p)

\* C1 witness: a fault moved its victim from Resident to Swapped and the
\* faulting page to Resident.
C1_Witness ==
    /\ lastAccess.result = "fault"
    /\ \E e \in Evictions : e.victim # Null /\ IsSwapped(e.victim)
    /\ IsResident(lastAccess.page)

\* C2: a page is Resident with frameId f exactly when frame f holds it, and
\* Swapped with diskBlockId b exactly when block b holds it.
C2_BidirectionalConsistency ==
    /\ \A p \in DOMAIN pages : \A f \in DOMAIN frames :
          (pages[p].location = "ram" /\ pages[p].frameId = f) <=> frames[f] = p
    /\ \A p \in DOMAIN pages : \A b \in DOMAIN blocks :
          (pages[p].location = "disk" /\ pages[p].diskBlockId = b) <=> blocks[b] = p
    /\ \A p \in DOMAIN pages : pages[p].location = "ram" => pages[p].frameId \in DOMAIN frames
    /\ \A p \in DOMAIN pages : pages[p].location = "disk" => pages[p].diskBlockId \in DOMAIN blocks

\* C3: at most one frame and at most one block hold a given page, and no
\* page is held by a frame and by a block at once.
C3_SingleHolder ==
    \A p \in DOMAIN pages :
        /\ Cardinality({f \in DOMAIN frames : frames[f] = p}) <= 1
        /\ Cardinality({b \in DOMAIN blocks : blocks[b] = p}) <= 1
        /\ ~(HeldByFrame(p) /\ HeldByBlock(p))

\* C3 witness: after a fault with eviction the victim sits in a block and the
\* faulting page, swapped in from disk, sits in a frame.
C3_Witness ==
    /\ lastAccess.result = "fault"
    /\ HeldByFrame(lastAccess.page)
    /\ \E e \in Evictions : e.victim # Null /\ HeldByBlock(e.victim)
    /\ stats.swapInCount > 0

\* C4: under LRU every eviction's victim is held by a frame, has the least
\* lastAccessTime of the pages held by frames, and is the tail of the list.
C4_LRUVictimLeastRecent ==
    \A e \in Evictions :
        (e.policy = "LRU" /\ e.victim # Null) =>
            e.held /\ e.lruMin /\ e.tail = e.victim

\* C5: while LRU is active, the list from head to tail and the node map hold
\* exactly the pages held by frames, each once, most recently used first.
C5_LRUListIsResidentSet ==
    policy.name = "LRU" =>
        LET order == getOrder(policy)
        IN /\ Range(order) = {p \in DOMAIN pages : HeldByFrame(p)}
           /\ DOMAIN policy.nodeMap = Range(order)
           /\ Len(order) = Cardinality(Range(order))
           /\ \A i \in 1..Len(order) : \A j \in i..Len(order) :
                 pages[order[i]].lastAccessTime >= pages[order[j]].lastAccessTime

\* C6: under FIFO the victim of a non-empty resident set has the smallest
\* loadTime and, among the pages sharing it, the smallest page id.
C6_FIFOVictimOldestLowestId ==
    \A e \in Evictions :
        (e.policy = "FIFO" /\ ~e.empty) =>
            e.victim # Null /\ e.oldest /\ e.lowestTie

\* C7: the reference string 1,2,3,4,1,2,5,1,2,3,4,5 under FIFO with strictly
\* increasing load times costs 9 faults with 3 frames and 10 with 4 frames.
C7_BeladyAnomaly ==
    refPos = Len(Ref) =>
        stats.totalPageFaults = (IF config.ramFrames = 3 THEN 9 ELSE 10)

\* C7 witness: the whole string has been served with 4 frames, with more
\* faults than the 3-frame run has.
C7_Witness ==
    refPos = Len(Ref) /\ config.ramFrames = 4 /\ stats.totalPageFaults = 10

\* C8: selectVictim returns no page only for an empty resident set, and a
\* page it returns is held by a frame.
C8_VictimIsResident ==
    \A e \in Evictions :
        /\ e.victim = Null => e.empty
        /\ e.victim # Null => e.held

\* C9: onEvict is only called for a page the active policy object received
\* onPageLoad for since its last onEvict, and the page that leaves its frame
\* is the page onEvict is called for.
C9_LoadEvictAlternate ==
    \A e \in Evictions :
        e.victim # Null => e.tracked /\ e.freed = e.victim

\* C10: a fault with no free frame and no free block ends with an error, the
\* faulting page not loaded, and the victim still held by a frame or a block.
C10_SwapExhaustedSurfaced ==
    \A e \in Evictions :
        (e.victim # Null /\ ~e.freeFrame /\ ~e.freeBlock) =>
            /\ lastAccess.result = "SwapExhausted"
            /\ ~HeldByFrame(lastAccess.page)
            /\ HeldByFrame(e.victim) \/ HeldByBlock(e.victim)

\* C11: a setPolicy or updateConfig call whose policy identifier is neither
\* FIFO nor LRU fails with InvalidPolicyName and leaves the policy object's
\* kind and config.policy as they were.
C11_InvalidPolicyRejected ==
    (lastCall.op \in {"setPolicy", "updateConfig"}
        /\ toUpperCase(lastCall.policy) \notin PolicyNames) =>
            /\ lastCall.result = "InvalidPolicyName"
            /\ policy.name = lastCall.before.policy
            /\ config.policy = lastCall.before.config.policy

\* C12: an updateConfig call that changes the active policy, with the frame
\* and block counts unchanged and pages resident, leaves the fully reset
\* state.
C12_PolicyChangeResets ==
    [][(/\ UpdateConfig
        /\ policy'.name # policy.name
        /\ config'.ramFrames = config.ramFrames
        /\ config'.swapBlocks = config.swapBlocks
        /\ \E p \in DOMAIN pages : IsResident(p))
       => FullyReset']_vars

\* C13: when updateConfig or loadScenario returns, the frame pool has
\* config.ramFrames frames and the swap pool config.swapBlocks blocks, as the
\* snapshot reports; after an updateConfig that changed a size all are free.
C13_PoolsFollowConfig ==
    [][/\ (UpdateConfig \/ LoadScenario) => PoolsAsConfigured'
       /\ (UpdateConfig /\ (config'.ramFrames # config.ramFrames
                             \/ config'.swapBlocks # config.swapBlocks))
             => PoolsFree']_vars

\* C14: at any wall-clock time getIORate() is the number of allocateBlock /
\* freeBlock events of the last ioWindow ms, per second: 5 after 5 events in
\* one window, 0 once a full window has passed since the last event.
C14_IORateCountsWindow ==
    getIORate(Engine) =
        Cardinality({i \in 1..Len(ioHistory) : now - ioHistory[i] < IoWindow})

\* C14 witness: five or more events fell inside one window, a full window
\* has passed since the last of them, and the rate is back to 0.
C14_Witness ==
    /\ Len(ioHistory) >= 5
    /\ ioHistory[5] - ioHistory[1] < IoWindow
    /\ now - ioHistory[Len(ioHistory)] >= IoWindow
    /\ getIORate(Engine) = 0

\* C15: every thrashing evaluation sets isThrashing to ioRate >= threshold
\* and invokes onThrashingChange once, with the new value, exactly when the
\* value changed.
C15_ThrashingEdgeTriggered ==
    \A i \in 1..Len(thrashLog) :
        LET e == thrashLog[i]
        IN /\ e.is = (e.ioRate >= ThrashingThreshold)
           /\ e.listening =>
                 e.emitted = IF e.was # e.is
                             THEN <<[name |-> "onThrashingChange", page |-> Null,
                                     value |-> BoolText(e.is)]>>
                             ELSE <<>>
           /\ i < Len(thrashLog) => thrashLog[i + 1].was = e.is
           /\ i = Len(thrashLog) => isThrashing = e.is

\* C15 witness: the engine had crossed the threshold upwards before, and an
\* evaluation after the window emptied found the rate below it and notified
\* once.
C15_Witness ==
    \E i \in 1..Len(thrashLog) :
        /\ thrashLog[i].was /\ ~thrashLog[i].is
        /\ Len(thrashLog[i].emitted) = 1

\* C16: in every snapshot hitRatio has the value hitCount / memoryAccesses,
\* and is 0 when memoryAccesses is 0.
C16_HitRatioIsFraction ==
    LET snapshot == getStats(Engine)
    IN IF snapshot.memoryAccesses = 0
       THEN snapshot.hitRatio.tenths = 0
       ELSE snapshot.hitRatio.tenths * snapshot.memoryAccesses = 10 * snapshot.hitCount

\* C17: after reset() every frame and block is free and listed once, the
\* policy tracks nothing, the counters and simulationTime are zero,
\* isThrashing is false and no process or page is registered.
C17_ResetRestoresInitialState ==
    lastCall.op = "reset" => FullyReset

\* C17 witness: reset() was called on an engine holding a page that swap
\* exhaustion had dropped, and left the fully reset state.
C17_Witness ==
    /\ lastCall.op = "reset"
    /\ lastCall.before.dropped
    /\ FullyReset

\* The process owning the last accessed page has locality 1.0, no more pages
\* than there are frames, and had all of them in RAM when it was registered.
LocalAndResidentAtStart ==
    LET process == processes[pages[lastAccess.page].processId + 1]
    IN /\ process.locality = 10
       /\ process.pageCount <= config.ramFrames
       /\ process.id \in residentAtStart

\* C18: a process with locality 1.0 and pageCount <= ramFrames whose pages
\* were all resident after registration never faults in step(), whatever
\* other processes are registered.
C18_LocalProcessNeverFaults ==
    lastAccess.result = "fault" => ~LocalAndResidentAtStart

\* C18, amended: the same when it is the only registered process.
C18_SoleLocalProcessNeverFaults ==
    (lastAccess.result = "fault" /\ Len(processes) = 1) => ~LocalAndResidentAtStart

\* C18 witness: the third step of a run hits a page of the only process,
\* which has locality 1.0 and started fully resident.
C18_Witness ==
    /\ lastAccess.result = "hit"
    /\ Len(processes) = 1
    /\ LocalAndResidentAtStart
    /\ simulationTime = MaxRunSteps * AccessInterval

\* Number of times a callback was invoked during the last public call.
EventCount(log, name) ==
    Cardinality({i \in DOMAIN log : log[i].name = name})

\* The events an accessPage call can cause.
AccessEvents ==
    {"onPageFault", "onPageEvicted", "onPageSwappedOut", "onPageSwappedIn",
     "onPageAllocated", "onPageAccessed"}

\* C19: one accessPage call emits each of the six page events at most once;
\* one step() call emits onSimulationStep and onStatsUpdate exactly once
\* each, after the events of all its accesses.
C19_EventsOncePerCall ==
    [][/\ (simulationTime' = simulationTime
           /\ stats'.memoryAccesses # stats.memoryAccesses)
          => \A e \in AccessEvents : EventCount(events', e) <= 1
       /\ simulationTime' # simulationTime
          => /\ EventCount(events', "onSimulationStep") = 1
             /\ EventCount(events', "onStatsUpdate") = 1
             /\ Len(events') >= 2
             /\ events'[Len(events') - 1].name = "onSimulationStep"
             /\ events'[Len(events')].name = "onStatsUpdate"]_vars

\* C19 witness: a step of two accesses, one a hit and one a fault that
\* evicted, ended with its two notifications.
C19_Witness ==
    /\ intensity = 2 * DefaultIntensity
    /\ Len(events) >= 2
    /\ events[Len(events)].name = "onStatsUpdate"
    /\ EventCount(events, "onPageAccessed") = 1
    /\ EventCount(events, "onPageFault") = 1
    /\ EventCount(events, "onPageEvicted") = 1

\* C20: every accessPage call on a registered page emits onPageAccessed for
\* that page with the outcome of the access, 'hit' or 'fault'.
C20_AccessAlwaysNotified ==
    lastAccess.page # Null
        => \E i \in DOMAIN events :
              /\ events[i].name = "onPageAccessed"
              /\ events[i].page = lastAccess.page
              /\ events[i].value = lastAccess.result

\* The scheduling gate is closed.
Stopped == ~isRunning \/ isPaused

\* C21: a scheduler tick runs step() at most once, and only when the time
\* elapsed since the last step is at least accessInterval / speed; speed
\* stays within [0.1, 10]; play() on a running engine starts no second loop.
C21_SchedulerStepsOncePerInterval ==
    [][/\ lastCall'.op = "runLoop"
          => /\ simulationTime' \in {simulationTime, simulationTime + AccessInterval}
             /\ simulationTime' # simulationTime
                   => (now - lastStepTime) * speed >= AccessInterval * 10
       /\ speed' \in 1..100
       /\ Cardinality(pendingFrames') <= 1]_vars

\* C21 witness: a tick stepped the engine at ten times the default speed
\* after one default interval, with one frame requested.
C21_Witness ==
    /\ lastCall.op = "runLoop"
    /\ speed = 100
    /\ simulationTime = AccessInterval
    /\ lastStepTime = AccessInterval
    /\ now = lastStepTime
    /\ Cardinality(pendingFrames) = 1

\* C22: pause() and reset() close the scheduling gate; while it is closed
\* and until play() is called no scheduler tick runs step(); a manual step()
\* call runs whatever the gate.
C22_NoScheduledStepUntilPlay ==
    [][/\ lastCall'.op \in {"pause", "reset"} => Stopped'
       /\ (Stopped /\ lastCall'.op # "play")
          => /\ Stopped'
             /\ lastCall'.op = "runLoop"
                   => (simulationTime' = simulationTime /\ stats' = stats)
       /\ (lastCall'.op = "none" /\ now' = now)
          => simulationTime' = simulationTime + AccessInterval]_vars

\* C22 witness: a played simulation was paused and then stepped by hand.
C22_Witness ==
    /\ isRunning
    /\ isPaused
    /\ lastCall.op = "none"
    /\ simulationTime = AccessInterval
    /\ stats.memoryAccesses > 0
    /\ pendingFrames = {}

\* C30: while the engine plays, ticks keep arriving and the clock advances,
\* a step that is due is taken, unless pause(), reset() or a lower speed
\* intervenes; so step() keeps being invoked.
C30_PlayingKeepsStepping ==
    StepDue ~> ~StepDue

\* C30 witness: an uninterrupted run reached its last step.
C30_Witness ==
    /\ isRunning
    /\ ~isPaused
    /\ lastCall.op = "runLoop"
    /\ simulationTime = MaxRunSteps * AccessInterval

\* C23: the intensity stays within [0.1, 10]; a step() performs exactly
\* ceil(intensity) accesses, between 1 and 10, when a process is registered,
\* and none when no process is registered.
C23_StepAccessesFollowIntensity ==
    [][/\ intensity' \in 1..100
       /\ simulationTime' > simulationTime
          => LET performed == stats'.memoryAccesses - stats.memoryAccesses
             IN IF Len(processes) = 0
                THEN performed = 0
                ELSE /\ performed \in 1..10
                     /\ 10 * performed >= intensity
                     /\ 10 * (performed - 1) < intensity]_vars

\* C23 witness: a step at intensity 1.5 performed two accesses.
C23_Witness ==
    /\ intensity = 15
    /\ simulationTime = AccessInterval
    /\ stats.memoryAccesses = 2

\* C24: every access is counted as exactly one of hit or fault, so
\* memoryAccesses = hitCount + totalPageFaults, and a hit is counted only
\* for a page that a frame holds.
C24_AccessIsHitOrFault ==
    /\ stats.memoryAccesses = stats.hitCount + stats.totalPageFaults
    /\ lastAccess.result = "hit"
          => \E f \in DOMAIN frames : frames[f] = lastAccess.page

\* C25: when an access returns after a fault, the page is held by a frame
\* with loadTime = simulationTime; one victim was evicted during the call
\* if no frame was free when it began, and none otherwise.
C25_FaultLoadsThePage ==
    [][(lastAccess'.result = "fault" /\ stats'.memoryAccesses = stats.memoryAccesses + 1)
          => LET p == lastAccess'.page
             IN /\ pages'[p].location = "ram"
                /\ pages'[p].frameId \in DOMAIN frames'
                /\ frames'[pages'[p].frameId] = p
                /\ pages'[p].loadTime = simulationTime
                /\ IF Len(freeFrames) = 0
                   THEN Len(evictLog') = 1 /\ evictLog'[1].victim # Null
                   ELSE Len(evictLog') = 0]_vars

\* C25 witness: a fault with every frame in use evicted one page and
\* loaded the faulting one, after the clock had advanced.
C25_Witness ==
    /\ lastAccess.result = "fault"
    /\ Len(evictLog) = 1
    /\ evictLog[1].victim # Null
    /\ simulationTime > 0
    /\ pages[lastAccess.page].loadTime = simulationTime
    /\ frames[pages[lastAccess.page].frameId] = lastAccess.page

\* C26: addProcess puts the new pages, in id order, into the free frames
\* while there are any and the remaining ones into swap blocks; only the
\* pages put into frames are reported to the policy, nothing is evicted and
\* the counters are unchanged.
C26_AddProcessPlacesPages ==
    [][Len(processes') = Len(processes) + 1
          => LET ids == processes'[Len(processes')].pages
                 inRam == IF Len(freeFrames) < Len(ids) THEN Len(freeFrames) ELSE Len(ids)
             IN /\ \A i \in 1..inRam :
                      /\ pages'[ids[i]].location = "ram"
                      /\ pages'[ids[i]].frameId = freeFrames[i]
                      /\ frames'[freeFrames[i]] = ids[i]
                /\ \A i \in (inRam + 1)..Len(ids) :
                      /\ pages'[ids[i]].location = "disk"
                      /\ pages'[ids[i]].diskBlockId \in DOMAIN blocks'
                      /\ blocks'[pages'[ids[i]].diskBlockId] = ids[i]
                /\ tracked' = tracked \cup {ids[i] : i \in 1..inRam}
                /\ evictLog' = <<>>
                /\ stats' = stats]_vars

\* C27: a step() call (the call that notifies onSimulationStep) serves its
\* accesses at the old simulationTime and then advances it by exactly
\* accessInterval; accessPage, addProcess, play and pause leave it unchanged.
C27_ClockAdvancesOnlyInStep ==
    [][IF EventCount(events', "onSimulationStep") > 0
       THEN /\ simulationTime' = simulationTime + AccessInterval
            /\ lastAccess'.page # Null
                  => pages'[lastAccess'.page].lastAccessTime = simulationTime
       ELSE simulationTime' = simulationTime]_vars

\* C27 witness: after a step, a page was accessed by hand at the advanced
\* time, and the engine was then paused.
C27_Witness ==
    /\ simulationTime = AccessInterval
    /\ isPaused
    /\ \E q \in DOMAIN pages : pages[q].lastAccessTime = AccessInterval

\* C28: while FIFO is active, its queue holds exactly the pages the policy
\* has loaded and not yet evicted, each once, in order of arrival.
C28_FifoQueueIsArrivalOrder ==
    policy.name = "FIFO"
        => /\ \A i, j \in 1..Len(policy.queue) :
                 i < j => /\ policy.queue[i] # policy.queue[j]
                          /\ pages[policy.queue[i]].loadTime
                                <= pages[policy.queue[j]].loadTime
           /\ {policy.queue[i] : i \in 1..Len(policy.queue)} = tracked

\* C28 witness: the queue holds a page loaded at time 0 before one loaded
\* after a step, and an evicted page is in swap.
C28_Witness ==
    /\ policy.name = "FIFO"
    /\ Len(policy.queue) = 2
    /\ pages[policy.queue[1]].loadTime < pages[policy.queue[2]].loadTime
    /\ \E q \in DOMAIN pages : pages[q].location = "disk" /\ q \notin tracked

\* C29: a process uses the locality it was created with, 0 and 1 included,
\* and its working-set size defaults to ceil(pageCount x 0.4).
C29_LocalityUsedAsGiven ==
    \A i \in 1..Len(processes) :
        /\ processes[i].locality = processes[i].optLocality
        /\ 10 * processes[i].workingSetSize >= 4 * processes[i].pageCount
        /\ 10 * (processes[i].workingSetSize - 1) < 4 * processes[i].pageCount

\* Every registered page is held by exactly one frame or exactly one swap
\* block, and no eviction of the last call was refused a swap block.
NoPageLost ==
    /\ \A p \in DOMAIN pages :
          Cardinality({f \in DOMAIN frames : frames[f] = p})
              + Cardinality({b \in DOMAIN blocks : blocks[b] = p}) = 1
    /\ \A e \in Evictions : e.victim # Null => e.block # Null

\* C31: when the registered pages number at most ramFrames plus the number
\* of swap blocks, no page is lost and swap allocation never fails.
C31_NoPageLostWithinCapacity ==
    Cardinality(DOMAIN pages) <= Cardinality(DOMAIN frames) + Cardinality(DOMAIN blocks)
        => NoPageLost

\* C31, amended: the same when the registered pages leave one swap block
\* spare (at most ramFrames + swap blocks - 1 pages).
C31_NoPageLostWithSpareBlock ==
    Cardinality(DOMAIN pages) < Cardinality(DOMAIN frames) + Cardinality(DOMAIN blocks)
        => NoPageLost

\* C31 witness: with exactly one block to spare, a fault evicted a page into
\* a swap block and swapped the faulting page in.
C31_Witness ==
    /\ Cardinality(DOMAIN pages) + 1
          = Cardinality(DOMAIN frames) + Cardinality(DOMAIN blocks)
    /\ lastAccess.result = "fault"
    /\ \E e \in Evictions : e.victim # Null /\ e.block # Null
    /\ stats.swapInCount > 0
    /\ \A b \in DOMAIN blocks : blocks[b] # Null => blocks[b] # lastAccess.page

\* The values carried by the onThrashingChange notifications of a call.
ThrashingNotes(log) ==
    LET notes == SelectSeq(log, LAMBDA e : e.name = "onThrashingChange")
    IN [i \in 1..Len(notes) |-> notes[i].value]

\* C32: the value of the most recent onThrashingChange notification is the
\* isThrashing flag.  Stated per call: the notifications of a call alternate,
\* starting from the opposite of the flag the call found and ending at the
\* flag it leaves, and a call without notification leaves the flag as it was
\* (reset, loadScenario and updateConfig included).
C32_NotifiedValueIsFlag ==
    [][LET notes == ThrashingNotes(events')
       IN /\ \A i \in 1..Len(notes) :
                notes[i] = IF i = 1 THEN BoolText(~isThrashing)
                           ELSE BoolText(notes[i - 1] = "false")
          /\ isThrashing' = IF Len(notes) = 0 THEN isThrashing
                            ELSE notes[Len(notes)] = "true"]_vars

\* C33: in every getStats() snapshot, isThrashing holds exactly when
\* diskIORate >= the thrashing threshold, and exactly when thrashingLevel
\* is 100.
C33_SnapshotThrashingConsistent ==
    LET snapshot == getStats(Engine)
    IN /\ snapshot.isThrashing <=> snapshot.diskIORate >= ThrashingThreshold
       /\ snapshot.isThrashing <=> snapshot.thrashingLevel = 100

\* C34: the engine reports thrashing only after a page fault has evicted a
\* page or swapped one in since the last reset; registrations and hits
\* alone never set the flag.
C34_ThrashingNeedsSwapTraffic ==
    isThrashing => /\ stats.totalPageFaults > 0
                   /\ stats.swapOutCount + stats.swapInCount > 0

\* The events that hand a page to the callback while a fault or a
\* registration moves it.
PlacementEvents ==
    {"onPageEvicted", "onPageSwappedOut", "onPageSwappedIn", "onPageAllocated"}

\* C35: when onPageEvicted, onPageSwappedOut, onPageSwappedIn or
\* onPageAllocated is invoked, the page it names, the frames and the blocks
\* agree on where the page is; the page is in a frame when onPageSwappedIn
\* fires and in its swap block when onPageSwappedOut fires.
C35_CallbacksSeeHandledFault ==
    \A i \in DOMAIN events :
        events[i].name \in PlacementEvents =>
            /\ events[i].seen.consistent
            /\ events[i].name = "onPageSwappedIn" => events[i].seen.location = "ram"
            /\ events[i].name = "onPageSwappedOut" => events[i].seen.location = "disk"

\* C36: between public calls, the free-frame list has no duplicates and
\* lists exactly the frames that hold no page, the free-block list has no
\* duplicates and lists exactly the blocks that hold no page; so ramUsed plus
\* the free frames is the number of frames, and swapUsed plus the free blocks
\* the number of blocks.
C36_FreeListsMatchPools ==
    /\ Len(freeFrames) = Cardinality(Range(freeFrames))
    /\ Range(freeFrames) = {f \in DOMAIN frames : frames[f] = Null}
    /\ Len(freeBlocks) = Cardinality(Range(freeBlocks))
    /\ Range(freeBlocks) = {b \in DOMAIN blocks : blocks[b] = Null}
    /\ getStats(Engine).ramUsed + Len(freeFrames) = Cardinality(DOMAIN frames)
    /\ getStats(Engine).swapUsed + Len(freeBlocks) = Cardinality(DOMAIN blocks)

\* C36 witness: a fault has evicted a page into swap and swapped the
\* faulting page in; every frame is in use, and the free-block list holds a
\* recycled block that is not the lowest-numbered one of the pool.
C36_Witness ==
    /\ lastAccess.result = "fault"
    /\ \E e \in Evictions : e.victim # Null /\ e.block # Null
    /\ stats.swapInCount > 0
    /\ freeFrames = <<>>
    /\ Len(freeBlocks) > 0
    /\ \E b \in DOMAIN blocks : blocks[b] # Null /\ b < freeBlocks[Len(freeBlocks)]

\* The workingSetSize lowest-id pages of a process.
LowestPages(process) == {process.pages[i] : i \in 1..process.workingSetSize}

\* C37: in runs driven by step(), the working set of a process with locality
\* 1.0 is always its workingSetSize lowest-id pages, and no other page of
\* the process is accessed.
C37_LocalWorkingSetIsFixed ==
    [][\A i \in 1..Len(processes') :
          processes'[i].locality = 10 =>
              /\ WorkingSet([pages |-> pages'], processes'[i]) = LowestPages(processes'[i])
              /\ (simulationTime' > simulationTime
                    /\ lastAccess'.page \in Range(processes'[i].pages))
                   => lastAccess'.page \in LowestPages(processes'[i])]_vars

\* C37 witness: a process with locality 1.0 that owns more pages than its
\* working set shares RAM with another process; a page of its working set
\* was evicted and has faulted back in, later than its first load, while a
\* page outside the working set still has the time of its registration.
C37_Witness ==
    /\ Len(processes) = 2
    /\ \E i \in 1..Len(processes) :
          /\ processes[i].locality = 10
          /\ processes[i].pageCount > processes[i].workingSetSize
          /\ lastAccess.result = "fault"
          /\ lastAccess.page \in LowestPages(processes[i])
          /\ stats.totalPageFaults >= 2
          /\ stats.swapInCount >= 2
          /\ \E q \in Range(processes[i].pages) \ LowestPages(processes[i]) :
                pages[q].lastAccessTime < pages[lastAccess.page].lastAccessTime

\* C38: the LRU list is well formed: head and tail are null exactly when the
\* index is empty, head.prev and tail.next are null, next and prev are
\* mutual inverses, and the traversal from head visits every indexed node
\* once and ends at tail.
C38_LRUListWellFormed ==
    LET nodes == DOMAIN policy.nodeMap
        order == getOrder(policy)
    IN /\ policy.head = Null <=> nodes = {}
       /\ policy.tail = Null <=> nodes = {}
       /\ policy.head # Null =>
             policy.head \in nodes /\ policy.nodeMap[policy.head].prev = Null
       /\ policy.tail # Null =>
             policy.tail \in nodes /\ policy.nodeMap[policy.tail].next = Null
       /\ \A p \in nodes :
             /\ policy.nodeMap[p].next # Null =>
                   /\ policy.nodeMap[p].next \in nodes
                   /\ policy.nodeMap[policy.nodeMap[p].next].prev = p
             /\ policy.nodeMap[p].prev # Null =>
                   /\ policy.nodeMap[p].prev \in nodes
                   /\ policy.nodeMap[policy.nodeMap[p].prev].next = p
       /\ Len(order) = Cardinality(nodes)
       /\ Range(order) = nodes
       /\ Len(order) > 0 => order[Len(order)] = policy.tail

\* C38 witness: onEvict has unlinked a node and left a list of three nodes
\* whose order is neither ascending nor descending in page id (loads alone,
\* in id order, give a descending list).
C38_Witness ==
    /\ lastCall.op = "onEvict"
    /\ Len(getOrder(policy)) = 3
    /\ getOrder(policy)[1] < getOrder(policy)[2]
    /\ getOrder(policy)[3] < getOrder(policy)[2]

=============================================================================
